---- MODULE Spec2Model ----
(***************************************************************************)
(* A model of PixverseClient (src/src/client.ts): the retrying JSON        *)
(* request executor, the convenience operations that validate and delegate *)
(* to it, and the signed object-storage upload.                            *)
(*                                                                         *)
(* Text is modelled as a sequence of tokens (a token is a TLA+ string that *)
(* is never split further), so that template literals, join and split are  *)
(* sequence operations that can be checked.                                *)
(***************************************************************************)
EXTENDS Integers, Sequences, FiniteSets, TLC

VARIABLES
  config,     \* this.config, set by the constructor
  pc,         \* where the current invocation stands
  op,         \* the public method that was invoked
  arg,        \* the argument it was invoked with
  endpoint,   \* request(): parameter endpoint
  options,    \* request(): parameter options
  retries,    \* request(): parameter retries of the innermost frame
  caught,     \* the error bound by the catch clause of each request() frame
  log,        \* what the invocation did to the outside: fetches and timer waits
  thrown,     \* the error the invocation rejected with
  result,     \* the value the invocation resolved with
  clock,      \* the last value of the wall clock that was read (seconds)
  uuidCount,  \* how many object names crypto.randomUUID() has produced
  upload,     \* uploadToOSS(): its locals
  lastUpload, \* history: what the previous uploadToOSS invocation used, if it failed
  calls       \* the request() calls in flight at the same time, each with its own frame

vars == <<config, pc, op, arg, endpoint, options, retries, caught, log, thrown,
          result, clock, uuidCount, upload, lastUpload, calls>>

requestVars == <<endpoint, options, retries, caught>>
uploadVars == <<clock, uuidCount, upload, lastUpload>>

\* ---------------------------------------------------------------- bounds

MaxDuration == 2
MaxClock == 2
MaxUploads == 2
MaxNameLen == 3
MaxCalls == 2

\* ------------------------------------------------------ program constants

DefaultRetries == 3
DelayMs == 1000

\* ------------------------------------------------------------ JS values

Undefined == [t |-> "undefined"]
Null == [t |-> "null"]
NaN == [t |-> "nan"]
Num(n) == [t |-> "number", n |-> n]
Str(s) == [t |-> "string", s |-> s]

\* ToBoolean(v) = false
Falsy(v) ==
  \/ v.t \in {"undefined", "null", "nan"}
  \/ v.t = "number" /\ v.n = 0
  \/ v.t = "string" /\ v.s = <<>>

\* ToNumber(v); the strings of the model are not numerals
ToNumber(v) ==
  CASE v.t = "undefined" -> NaN
    [] v.t = "null" -> Num(0)
    [] v.t = "string" -> IF v.s = <<>> THEN Num(0) ELSE NaN
    [] OTHER -> v

\* v <= 0, the relational comparison: false when either side is NaN
LessEqZero(v) ==
  LET n == ToNumber(v) IN n.t = "number" /\ n.n <= 0

\* { ...a, ...b }
Spread(a, b) ==
  [k \in DOMAIN a \cup DOMAIN b |-> IF k \in DOMAIN b THEN b[k] ELSE a[k]]

Digit == <<"0", "1", "2", "3", "4", "5", "6", "7", "8", "9">>

RECURSIVE NumToStr(_)
\* `${n}` for a number n >= 0
NumToStr(n) ==
  IF n < 10 THEN <<Digit[n + 1]>>
  ELSE NumToStr(n \div 10) \o <<Digit[(n % 10) + 1]>>

\* JSON.stringify of a flat object: undefined members are left out, NaN is null
JSONStringify(req) ==
  [k \in {f \in DOMAIN req : req[f].t # "undefined"} |->
     IF req[k].t = "nan" THEN Null ELSE req[k]]

\* ------------------------------------------------------ request executor

baseUrl == "https://app-api.pixverse.ai"

\* the headers object that request() builds
DefaultHeaders(cfg) ==
  Spread(
    ("Content-Type" :> "application/json")
    @@ ("User-Agent" :> "Mozilla/5.0 (Macintosh; Intel Mac OS X 10.15; rv:136.0) Gecko/20100101 Firefox/136.0")
    @@ ("X-Platform" :> "Web")
    @@ ("Referer" :> "https://app.pixverse.ai/")
    @@ ("Origin" :> "https://app.pixverse.ai")
    @@ ("Sec-Fetch-Dest" :> "empty")
    @@ ("Sec-Fetch-Mode" :> "cors")
    @@ ("Sec-Fetch-Site" :> "same-site")
    @@ ("Sec-GPC" :> "1")
    @@ ("Accept" :> "application/json, text/plain, */*")
    @@ ("Accept-Language" :> "en-US")
    @@ ("Ai-Trace-Id" :> "randomUUID")
    @@ ("Token" :> cfg.token),
    cfg.headers)

\* the second argument of fetch()
FetchInit(opts, cfg) ==
  Spread(opts, [headers |-> DefaultHeaders(cfg), credentials |-> "omit", mode |-> "cors"])

\* response.ok
ResponseOk(resp) == resp.status >= 200 /\ resp.status <= 299

HttpError(resp, n) ==
  [name |-> "Error",
   message |-> <<"HTTP error! status: ">> \o NumToStr(resp.status),
   attempt |-> n]

\* the message without the code
ApiErrorMessageNoCode(data) == <<"API error: ">> \o data.ErrMsg

ApiErrorMessage(data) ==
  <<"API error: ">> \o data.ErrMsg \o <<" (Code: ">> \o NumToStr(data.ErrCode) \o <<")">>

ApiError(data, n) ==
  [name |-> "Error", message |-> ApiErrorMessage(data), attempt |-> n]

NetworkError(n) ==
  [name |-> "TypeError", message |-> <<"fetch failed">>, attempt |-> n]

JsonError(n) ==
  [name |-> "SyntaxError", message |-> <<"Unexpected token">>, attempt |-> n]

\* the envelope's code is not looked at
EnvelopeNeverFailed(data) == FALSE

\* data.ErrCode !== 0
EnvelopeFailed(data) == data.ErrCode # 0

\* The try block of request() on the n-th attempt, given what fetch produced:
\* the error it throws, or the envelope it returns.
TryBody(resp, n) ==
  IF resp.kind = "network" THEN [threw |-> TRUE, error |-> NetworkError(n)]
  ELSE IF ~ResponseOk(resp) THEN [threw |-> TRUE, error |-> HttpError(resp, n)]
  ELSE IF resp.body.kind # "json" THEN [threw |-> TRUE, error |-> JsonError(n)]
  ELSE IF EnvelopeFailed(resp.body.data)
    THEN [threw |-> TRUE, error |-> ApiError(resp.body.data, n)]
  ELSE [threw |-> FALSE, data |-> resp.body.data]

\* a retry budget that is off by one
ShouldRetryInclusive(r) == r >= 0

\* if (retries > 0)
ShouldRetry(r) == r > 0

\* the first error is kept and thrown at the end
RethrowFirst(errs) == errs[1]

\* throw error: the error bound in the frame that gives up
Rethrow(errs) == errs[Len(errs)]

\* what the public method makes of the envelope request() resolved with
Unwrap(method, data) ==
  IF method \in {"getUploadToken", "uploadMedia"} THEN data.Resp ELSE data

\* -------------------------------------------------------------- inputs

Envelope(code, msg, resp) == [ErrCode |-> code, ErrMsg |-> msg, Resp |-> resp]

JsonBody(data) == [kind |-> "json", data |-> data]

Responses ==
  { [kind |-> "network"],
    [kind |-> "http", status |-> 500, body |-> [kind |-> "text"]],
    [kind |-> "http", status |-> 404, body |-> [kind |-> "text"]],
    [kind |-> "http", status |-> 200, body |-> [kind |-> "text"]],
    [kind |-> "http", status |-> 200,
     body |-> JsonBody(Envelope(400017, <<"invalid param">>, [v |-> "ignored"]))],
    [kind |-> "http", status |-> 200,
     body |-> JsonBody(Envelope(500044, <<"no credit">>, [v |-> "ignored"]))],
    [kind |-> "http", status |-> 200,
     body |-> JsonBody(Envelope(0, <<"Success">>, [v |-> "payload1"]))],
    [kind |-> "http", status |-> 201,
     body |-> JsonBody(Envelope(0, <<"Success">>, [v |-> "payload2"]))] }

Configs ==
  { [token |-> "tok", headers |-> <<>>],
    [token |-> "tok", headers |-> ("X-Extra" :> "1")],
    [token |-> "tok", headers |-> ("Token" :> "other") @@ ("Accept" :> "*/*")] }

Paths == {Undefined, Str(<<>>), Str(<<"upload/v.mp4">>)}
Texts == {Undefined, Str(<<>>), Str(<<"hello">>)}
Durations == {Undefined, Null, NaN} \cup {Num(n) : n \in -1..MaxDuration}
VideoIds == {Undefined, NaN, Num(0), Num(7)}

LipSyncRequests ==
  [customer_video_path : Paths, lip_sync_tts_content : Texts,
   customer_video_duration : Durations]

LastVideoFrameRequests == [video_path : Paths, duration : Durations]

VideoDetailsRequests == [video_id : VideoIds]

MediaUploadRequests ==
  { [name |-> Str(<<"u1", ".mp4">>), path |-> Str(<<"upload/", "u1", ".mp4">>), type |-> Num(1)] }

\* ---------------------------------------------------------------- state

NoUpload == [active |-> FALSE]

\* the calls a caller may have in flight at once
CallIds == 1..MaxCalls

\* a call that has not been made: no frame of request() exists for it
IdleCall == [pc |-> "idle", retries |-> 0, events |-> <<>>]

None == [name |-> "none"]

Init ==
  /\ config \in Configs
  /\ pc = "idle"
  /\ op = "none"
  /\ arg = None
  /\ endpoint = ""
  /\ options = <<>>
  /\ retries = 0
  /\ caught = <<>>
  /\ log = <<>>
  /\ thrown = None
  /\ result = None
  /\ clock = 0
  /\ uuidCount = 0
  /\ upload = NoUpload
  /\ lastUpload = NoUpload
  /\ calls = [c \in CallIds |-> IdleCall]

\* a public method is entered
Enter(method, a) ==
  /\ pc = "idle"
  /\ op' = method
  /\ arg' = a
  /\ log' = <<>>
  /\ result' = None
  /\ UNCHANGED <<config, calls>>

\* the method throws before it calls request()
Reject(msg) ==
  /\ pc' = "thrown"
  /\ thrown' = [name |-> "Error", message |-> msg, attempt |-> 0]
  /\ UNCHANGED requestVars

\* this.request(ep, opts), retries left at its default
Request(ep, opts) ==
  /\ pc' = "fetch"
  /\ endpoint' = ep
  /\ options' = opts
  /\ retries' = DefaultRetries
  /\ caught' = <<>>
  /\ thrown' = None

\* One attempt of request(): the fetch, the two checks of the try block, and
\* the catch clause up to its decision to wait or to give up.
Attempt ==
  /\ pc = "fetch"
  /\ \E resp \in Responses :
       LET n == Len(caught) + 1
           out == TryBody(resp, n)
       IN /\ log' = Append(log, [type |-> "fetch",
                                 url |-> <<baseUrl, endpoint>>,
                                 init |-> FetchInit(options, config),
                                 resp |-> resp])
          /\ IF ~out.threw
               THEN /\ pc' = "returned"
                    /\ result' = Unwrap(op, out.data)
                    /\ UNCHANGED <<caught, thrown>>
               ELSE /\ caught' = Append(caught, out.error)
                    /\ IF ShouldRetry(retries)
                         THEN pc' = "wait" /\ UNCHANGED thrown
                         ELSE pc' = "thrown" /\ thrown' = Rethrow(caught')
                    /\ UNCHANGED result
  /\ UNCHANGED <<config, op, arg, endpoint, options, retries, uploadVars, calls>>

\* The timer of the catch clause fires and request() calls itself with one
\* retry less.
Wait ==
  /\ pc = "wait"
  /\ log' = Append(log, [type |-> "wait", ms |-> DelayMs])
  /\ retries' = retries - 1
  /\ pc' = "fetch"
  /\ UNCHANGED <<config, op, arg, endpoint, options, caught, thrown, result, uploadVars, calls>>

CallGetUploadToken ==
  /\ Enter("getUploadToken", None)
  /\ Request("/creative_platform/getUploadToken", [method |-> "POST"])
  /\ UNCHANGED uploadVars

CallUploadMedia ==
  /\ \E uploadRequest \in MediaUploadRequests :
       /\ Enter("uploadMedia", uploadRequest)
       /\ Request("/creative_platform/media/upload",
                  [method |-> "POST", body |-> JSONStringify(uploadRequest)])
  /\ UNCHANGED uploadVars

LipSyncMissing(request) ==
  Falsy(request.customer_video_path) \/ Falsy(request.lip_sync_tts_content)

LipSyncBadDuration(request) == LessEqZero(request.customer_video_duration)

CallCreateLipSync ==
  /\ \E request \in LipSyncRequests :
       /\ Enter("createLipSync", request)
       /\ IF LipSyncMissing(request)
            THEN Reject(<<"Missing required fields: customer_video_path and lip_sync_tts_content are required">>)
          ELSE IF LipSyncBadDuration(request)
            THEN Reject(<<"Invalid video duration: must be greater than 0">>)
          ELSE Request("/creative_platform/video/lip_sync",
                       [method |-> "POST",
                        body |-> JSONStringify(request),
                        headers |-> ("Refresh" :> "credit")])
  /\ UNCHANGED uploadVars

LastFrameInvalid(request) ==
  Falsy(request.video_path) \/ LessEqZero(request.duration)

CallGetLastVideoFrame ==
  /\ \E request \in LastVideoFrameRequests :
       /\ Enter("getLastVideoFrame", request)
       /\ IF LastFrameInvalid(request)
            THEN Reject(<<"Missing required fields: video_path and duration must be provided and duration must be greater than 0">>)
            ELSE Request("/creative_platform/video/frame/last",
                         [method |-> "POST", body |-> JSONStringify(request)])
  /\ UNCHANGED uploadVars

VideoDetailsInvalid(request) == Falsy(request.video_id)

CallGetVideoDetails ==
  /\ \E request \in VideoDetailsRequests :
       /\ Enter("getVideoDetails", request)
       /\ IF VideoDetailsInvalid(request)
            THEN Reject(<<"Missing required field: video_id must be provided">>)
            ELSE Request("/creative_platform/video/list/detail",
                         [method |-> "POST", body |-> JSONStringify(request)])
  /\ UNCHANGED uploadVars

\* The caller has observed the outcome; the client is ready for another call.
Settle ==
  /\ pc \in {"returned", "thrown"}
  /\ op # "uploadToOSS"
  /\ pc' = "idle"
  /\ op' = "none"
  /\ arg' = None
  /\ endpoint' = ""
  /\ options' = <<>>
  /\ retries' = 0
  /\ caught' = <<>>
  /\ log' = <<>>
  /\ thrown' = None
  /\ result' = None
  /\ UNCHANGED <<config, uploadVars, calls>>

Next ==
  \/ CallGetUploadToken
  \/ CallUploadMedia
  \/ CallCreateLipSync
  \/ CallGetLastVideoFrame
  \/ CallGetVideoDetails
  \/ Attempt
  \/ Wait
  \/ Settle

Spec == Init /\ [][Next]_vars

\* ------------------------------------------------- signed upload

RECURSIVE Split(_, _)
\* s.split(sep): the pieces of s between the occurrences of the token sep
Split(s, sep) ==
  IF \A i \in 1..Len(s) : s[i] # sep THEN <<s>>
  ELSE LET i == CHOOSE j \in 1..Len(s) :
                  s[j] = sep /\ \A k \in 1..(j - 1) : s[k] # sep
       IN <<SubSeq(s, 1, i - 1)>> \o Split(SubSeq(s, i + 1, Len(s)), sep)

\* s.includes(sep)
Includes(s, sep) == \E i \in 1..Len(s) : s[i] = sep

\* pieces.pop(): the last piece
Pop(pieces) == pieces[Len(pieces)]

\* the extension is taken after the first dot
FileExtAfterFirstDot(fileName) ==
  IF Includes(fileName, ".") THEN <<".">> \o Split(fileName, ".")[2] ELSE <<>>

\* fileExt
FileExt(fileName) ==
  IF Includes(fileName, ".") THEN <<".">> \o Pop(Split(fileName, ".")) ELSE <<>>

\* the identifier is not generated anew
StaleUUID(n) == <<"uuid-", "0">>

\* crypto.randomUUID() for the object name: the n-th identifier; identifiers
\* do not repeat
RandomUUID(n) == <<"uuid-">> \o NumToStr(n)

\* new Date().toUTCString() at second t of the epoch's first minute
ToUTCString(t) ==
  <<"Thu, 01 Jan 1970 00:00:", Digit[(t \div 10) + 1], Digit[(t % 10) + 1], " GMT">>

ossUserAgent == <<"aliyun-sdk-js/6.22.0 Firefox 136.0 on OS X 10.15">>

\* ossHeaders, as Object.entries lists it: in insertion order
OssHeaders(date, uploadToken) ==
  << <<"x-oss-date", date>>,
     <<"x-oss-security-token", <<uploadToken.Token>> >>,
     <<"x-oss-forbid-overwrite", <<"true">> >>,
     <<"x-oss-user-agent", ossUserAgent>> >>

\* the order of a.localeCompare(b) on header names
Collation ==
  <<"accept", "authorization", "content-type", "x-oss-date",
    "x-oss-forbid-overwrite", "x-oss-security-token", "x-oss-user-agent">>

Rank(k) == CHOOSE i \in 1..Len(Collation) : Collation[i] = k

LocaleCompare(a, b) ==
  IF Rank(a) < Rank(b) THEN -1 ELSE IF Rank(a) > Rank(b) THEN 1 ELSE 0

RECURSIVE Insert(_, _)
Insert(sorted, e) ==
  IF sorted = <<>> THEN <<e>>
  ELSE IF LocaleCompare(e[1], Head(sorted)[1]) < 0 THEN <<e>> \o sorted
  ELSE <<Head(sorted)>> \o Insert(Tail(sorted), e)

RECURSIVE SortFrom(_, _)
SortFrom(sorted, rest) ==
  IF rest = <<>> THEN sorted ELSE SortFrom(Insert(sorted, Head(rest)), Tail(rest))

\* the entries are left in insertion order
Unsorted(entries) == entries

\* entries.sort(([a], [b]) => a.localeCompare(b))
SortEntries(entries) == SortFrom(<<>>, entries)

\* key.toLowerCase()
ToLowerCase(k) ==
  CASE k = "Accept" -> "accept"
    [] k = "Content-Type" -> "content-type"
    [] k = "X-Oss-Date" -> "x-oss-date"
    [] OTHER -> k

RECURSIVE Join(_, _)
\* parts.join(sep)
Join(parts, sep) ==
  IF parts = <<>> THEN <<>>
  ELSE IF Len(parts) = 1 THEN parts[1]
  ELSE parts[1] \o sep \o Join(Tail(parts), sep)

\* canonicalizedOSSHeaders
CanonicalizedOSSHeaders(date, uploadToken) ==
  LET entries == SortEntries(OssHeaders(date, uploadToken))
      lines == [i \in 1..Len(entries) |->
                  <<ToLowerCase(entries[i][1]), ":">> \o entries[i][2]]
  IN Join(lines, <<"\n">>) \o <<"\n">>

\* canonicalizedResource
CanonicalizedResource(path) == <<"/pixverse-fe-upload/">> \o path

\* stringToSign
StringToSign(method, contentType, date, uploadToken, path) ==
  Join(<< <<method>>,
          <<>>,
          contentType,
          date,
          CanonicalizedOSSHeaders(date, uploadToken) \o CanonicalizedResource(path) >>,
       <<"\n">>)

\* crypto.createHmac('sha1', key).update(msg).digest('base64'), kept symbolic:
\* a value that determines, and is determined by, the key and the message
HmacSha1Base64(key, msg) == <<"base64(hmac-sha1(", key, ",">> \o msg \o <<"))">>

\* the headers of the PUT
PutHeaders(date, contentType, uploadToken, signature) ==
  [k \in {"Accept", "x-oss-date", "x-oss-user-agent", "x-oss-security-token",
          "Access-Control-Allow-Origin", "x-oss-forbid-overwrite", "Content-Type",
          "authorization"} |->
     CASE k = "Accept" -> <<"*/*">>
       [] k = "x-oss-date" -> date
       [] k = "x-oss-user-agent" -> ossUserAgent
       [] k = "x-oss-security-token" -> <<uploadToken.Token>>
       [] k = "Access-Control-Allow-Origin" -> <<"*">>
       [] k = "x-oss-forbid-overwrite" -> <<"true">>
       [] k = "Content-Type" -> contentType
       [] k = "authorization" -> <<"OSS ", uploadToken.Ak, ":">> \o signature]

\* file.type === 'video/mp4' ? 1 : 2
MediaType(type) == IF type = <<"video/mp4">> THEN 1 ELSE 2

UploadError(resp) ==
  [name |-> "Error",
   message |-> <<"Failed to upload file (">> \o NumToStr(resp.status) \o <<"): ">>
               \o (IF resp.text # <<>> THEN resp.text ELSE resp.statusText),
   attempt |-> 1]

NameTokens == {"a", "."}

RECURSIVE SeqsUpTo(_, _)
\* the sequences over S of length at most n
SeqsUpTo(S, n) ==
  IF n = 0 THEN {<<>>}
  ELSE LET shorter == SeqsUpTo(S, n - 1)
       IN shorter \cup {Append(q, x) : q \in {r \in shorter : Len(r) = n - 1}, x \in S}

FileNames ==
  SeqsUpTo(NameTokens, MaxNameLen) \cup {<<"clip", ".", "MOV">>, <<"a", ".", "mp4">>}

FileTypes == {<<"video/mp4">>, <<"audio/mpeg">>}

UploadTokens == {[Ak |-> "STS.ak", Sk |-> "sk", Token |-> "sts-token"]}

PutResponses ==
  { [kind |-> "network"],
    [kind |-> "http", status |-> 200, text |-> <<>>, statusText |-> <<"OK">>],
    [kind |-> "http", status |-> 403, text |-> <<"SignatureDoesNotMatch">>,
     statusText |-> <<"Forbidden">>],
    [kind |-> "http", status |-> 409, text |-> <<>>, statusText |-> <<"Conflict">>] }

ossHost == "https://pixverse-fe-upload.oss-accelerate.aliyuncs.com/"

\* uploadToOSS up to its await of fetch: the name, the date, the string to
\* sign and the signature are computed, and the PUT is on its way.
CallUploadToOSS ==
  /\ uuidCount < MaxUploads
  /\ \E file \in [type : FileTypes], fileName \in FileNames,
        uploadToken \in UploadTokens, now \in clock..MaxClock :
       LET name == RandomUUID(uuidCount) \o FileExt(fileName)
           path == <<"upload/">> \o name
           date == ToUTCString(now)
           stringToSign == StringToSign("PUT", file.type, date, uploadToken, path)
           signature == HmacSha1Base64(uploadToken.Sk, stringToSign)
       IN /\ Enter("uploadToOSS", [file |-> file, fileName |-> fileName,
                                   uploadToken |-> uploadToken])
          /\ clock' = now
          /\ uuidCount' = uuidCount + 1
          /\ upload' = [active |-> TRUE, name |-> name, path |-> path,
                        url |-> <<ossHost>> \o path, date |-> date,
                        stringToSign |-> stringToSign, signature |-> signature,
                        headers |-> PutHeaders(date, file.type, uploadToken, signature)]
  /\ pc' = "put"
  /\ thrown' = None
  /\ UNCHANGED <<requestVars, lastUpload>>

\* The PUT completes: uploadToOSS returns the stored location or throws.
Put ==
  /\ pc = "put"
  /\ \E resp \in PutResponses :
       /\ log' = Append(log, [type |-> "fetch",
                              url |-> upload.url,
                              init |-> [method |-> "PUT", headers |-> upload.headers,
                                        body |-> arg.file, credentials |-> "include",
                                        mode |-> "cors"],
                              resp |-> resp])
       /\ IF resp.kind = "network"
            THEN pc' = "thrown" /\ thrown' = NetworkError(1) /\ UNCHANGED result
          ELSE IF ~ResponseOk(resp)
            THEN pc' = "thrown" /\ thrown' = UploadError(resp) /\ UNCHANGED result
          ELSE /\ pc' = "returned"
               /\ result' = [name |-> upload.name, path |-> upload.path,
                             type |-> MediaType(arg.file.type)]
               /\ UNCHANGED thrown
  /\ UNCHANGED <<config, op, arg, requestVars, uploadVars, calls>>

\* The caller has observed the outcome of uploadToOSS.
SettleUpload ==
  /\ pc \in {"returned", "thrown"}
  /\ op = "uploadToOSS"
  /\ lastUpload' = IF pc = "thrown"
                     THEN [active |-> TRUE, name |-> upload.name, date |-> upload.date,
                           signature |-> upload.signature]
                     ELSE NoUpload
  /\ upload' = NoUpload
  /\ pc' = "idle"
  /\ op' = "none"
  /\ arg' = None
  /\ log' = <<>>
  /\ thrown' = None
  /\ result' = None
  /\ UNCHANGED <<config, requestVars, clock, uuidCount, calls>>

\* uploadToOSS reads nothing of the client and shares nothing with request():
\* its invocations are followed on their own.
NextUpload == CallUploadToOSS \/ Put \/ SettleUpload

SpecUpload == Init /\ [][NextUpload]_vars

\* ------------------------------------------------- concurrent calls

\* Several control-plane calls awaited at the same time (Promise.all and the
\* like). JavaScript runs one continuation at a time, so a step is what one
\* call does between two awaits: from the entry of request() to its await of
\* fetch, from the settled fetch to the await of the timer or to the return
\* or throw, from the fired timer through the recursive call to its await of
\* fetch. Each call has its own frames, hence its own retries parameter; what
\* the calls share is this.config and baseUrl.

sequentialVars ==
  <<pc, op, arg, endpoint, options, retries, caught, log, thrown, result,
    clock, uuidCount, upload, lastUpload>>

\* the retries parameter is one counter of the client, counted down for every call
RecurseShared(cs, c) ==
  [d \in DOMAIN cs |->
     IF d = c
       THEN [pc |-> "inflight", retries |-> cs[c].retries - 1,
             events |-> cs[c].events \o <<"timer", "fetch">>]
       ELSE [cs[d] EXCEPT !.retries = @ - 1]]

\* return this.request(endpoint, options, retries - 1), up to its await of fetch
Recurse(cs, c) ==
  [cs EXCEPT ![c] = [pc |-> "inflight", retries |-> @.retries - 1,
                     events |-> @.events \o <<"timer", "fetch">>]]

\* A public method calls request(), which builds its headers from this.config
\* and awaits fetch.
ConcCall(c) ==
  /\ calls[c].pc = "idle"
  /\ DOMAIN FetchInit([method |-> "POST"], config) # {}
  /\ calls' = [calls EXCEPT ![c] = [pc |-> "inflight", retries |-> DefaultRetries,
                                    events |-> <<"fetch">>]]
  /\ UNCHANGED <<config, sequentialVars>>

\* The fetch of call c settles: the try block, and the catch clause up to its
\* await of the timer or its throw.
ConcSettleFetch(c) ==
  /\ calls[c].pc = "inflight"
  /\ \E resp \in Responses :
       LET out == TryBody(resp, DefaultRetries - calls[c].retries + 1) IN
         calls' = [calls EXCEPT ![c] =
           IF ~out.threw
             THEN [@ EXCEPT !.pc = "returned", !.events = Append(@, "ok")]
           ELSE IF ShouldRetry(@.retries)
             THEN [@ EXCEPT !.pc = "wait", !.events = Append(@, "failed")]
           ELSE [@ EXCEPT !.pc = "thrown", !.events = Append(@, "failed")]]
  /\ UNCHANGED <<config, sequentialVars>>

\* The timer of call c fires and its request() calls itself.
ConcTimer(c) ==
  /\ calls[c].pc = "wait"
  /\ calls' = Recurse(calls, c)
  /\ UNCHANGED <<config, sequentialVars>>

\* The caller has observed the outcome of call c.
ConcDone(c) ==
  /\ calls[c].pc \in {"returned", "thrown"}
  /\ calls' = [calls EXCEPT ![c] = IdleCall]
  /\ UNCHANGED <<config, sequentialVars>>

NextConcurrent ==
  \E c \in CallIds : ConcCall(c) \/ ConcSettleFetch(c) \/ ConcTimer(c) \/ ConcDone(c)

SpecConcurrent == Init /\ [][NextConcurrent]_vars

\* ------------------------------------------------- reading the log

IsFetch(e) == e.type = "fetch"
IsWait(e) == e.type = "wait"

Fetches == SelectSeq(log, IsFetch)
NumFetches == Len(Fetches)
NumWaits == Len(SelectSeq(log, IsWait))

ControlPlaneOps ==
  {"getUploadToken", "uploadMedia", "createLipSync", "getLastVideoFrame", "getVideoDetails"}

InRequest == op \in ControlPlaneOps /\ log # <<>>

Non2xx(resp) == resp.kind = "http" /\ resp.status \notin 200..299

HasEnvelope(resp) ==
  resp.kind = "http" /\ resp.status \in 200..299 /\ resp.body.kind = "json"

AppError(resp) == HasEnvelope(resp) /\ resp.body.data.ErrCode # 0

Succeeded(resp) == HasEnvelope(resp) /\ resp.body.data.ErrCode = 0

\* the log is fetch, wait, fetch, wait, ...: every fetch but the first comes
\* right after one wait of the fixed delay, which comes right after a fetch
Alternates ==
  \A i \in 1..Len(log) :
    IF i % 2 = 1 THEN IsFetch(log[i]) ELSE IsWait(log[i]) /\ log[i].ms = 1000

\* sub occurs in s
Contains(s, sub) ==
  \E i \in 1..(Len(s) - Len(sub) + 1) : SubSeq(s, i, i + Len(sub) - 1) = sub

\* ---------------------------------------------------------------- C1

\* C1: a request() call whose responses so far all had a non-2xx status has
\* made at most 4 fetches; it has failed exactly when it has made 4 of them,
\* it never returns a result, and its fetches are separated by exactly one
\* wait of 1000 ms each.
C1_FourAttemptsOnNon2xx ==
  (InRequest /\ \A i \in 1..NumFetches : Non2xx(Fetches[i].resp)) =>
    /\ NumFetches <= 4
    /\ (pc = "thrown") = (NumFetches = 4 /\ Len(log) = 7)
    /\ pc \in {"wait", "fetch", "thrown"}
    /\ NumFetches < 4 => NumWaits = NumFetches - (IF pc = "wait" THEN 1 ELSE 0)
    /\ NumFetches = 4 => NumWaits = 3
    /\ Alternates

C1_Witness ==
  /\ InRequest
  /\ pc = "thrown"
  /\ NumFetches = 4
  /\ NumWaits = 3
  /\ \A i \in 1..4 : Non2xx(Fetches[i].resp)
  /\ Fetches[1].resp.status # Fetches[4].resp.status

\* ---------------------------------------------------------------- C2

\* C2: a request() call whose responses all were 2xx envelopes with a nonzero
\* ErrCode fails after exactly 4 fetches, never earlier, and the message of
\* the error it throws contains the ErrMsg and the ErrCode of the envelope of
\* the last response.
C2_AppErrorRetriedAndSurfaced ==
  (InRequest /\ \A i \in 1..NumFetches : AppError(Fetches[i].resp)) =>
    /\ NumFetches <= 4
    /\ (pc = "thrown") = (NumFetches = 4)
    /\ pc \in {"wait", "fetch", "thrown"}
    /\ pc = "thrown" =>
         LET env == Fetches[4].resp.body.data IN
           /\ Contains(thrown.message, env.ErrMsg)
           /\ Contains(thrown.message, NumToStr(env.ErrCode))

C2_Witness ==
  /\ InRequest
  /\ pc = "thrown"
  /\ NumFetches = 4
  /\ \A i \in 1..4 : AppError(Fetches[i].resp)
  /\ Fetches[4].resp.body.data.ErrCode = 500044
  /\ Fetches[1].resp.body.data.ErrCode = 400017
  /\ thrown.message = <<"API error: ", "no credit", " (Code: ", "5", "0", "0", "0", "4", "4", ")">>

\* ---------------------------------------------------------------- C3

\* the payload of what the public method resolved with
ResultPayload == IF op \in {"getUploadToken", "uploadMedia"} THEN result ELSE result.Resp

\* C3: a successful response (2xx and ErrCode 0) is always the last entry of
\* the log and ends the call with a result; a control-plane call that has
\* returned made k <= 4 fetches, the first k-1 of which failed, and its result
\* carries the payload of the k-th response.
C3_ResultOfFirstSuccess ==
  /\ \A i \in 1..Len(log) :
       (InRequest /\ IsFetch(log[i]) /\ Succeeded(log[i].resp)) =>
         i = Len(log) /\ pc = "returned"
  /\ (op \in ControlPlaneOps /\ pc = "returned") =>
       /\ NumFetches \in 1..4
       /\ Succeeded(Fetches[NumFetches].resp)
       /\ \A i \in 1..(NumFetches - 1) : ~Succeeded(Fetches[i].resp)
       /\ ResultPayload = Fetches[NumFetches].resp.body.data.Resp
       /\ op \notin {"getUploadToken", "uploadMedia"} =>
            result = Fetches[NumFetches].resp.body.data

C3_Witness ==
  /\ op = "getUploadToken"
  /\ pc = "returned"
  /\ NumFetches = 4
  /\ Fetches[1].resp.kind = "network"
  /\ Non2xx(Fetches[2].resp)
  /\ AppError(Fetches[3].resp)
  /\ result = [v |-> "payload2"]

\* ---------------------------------------------------------------- C4

\* C4: a request() call fails only after 4 fetches that all failed, and the
\* error it throws is the one the 4th attempt raised: the error of that
\* attempt's response, created in that attempt, and no error caught earlier.
C4_LastErrorPropagated ==
  (InRequest /\ pc = "thrown") =>
    /\ NumFetches = 4
    /\ \A i \in 1..4 : ~Succeeded(Fetches[i].resp)
    /\ thrown = TryBody(Fetches[4].resp, 4).error
    /\ thrown.attempt = 4
    /\ \A i \in 1..3 : thrown # caught[i]

C4_Witness ==
  /\ InRequest
  /\ pc = "thrown"
  /\ Fetches[1].resp.kind = "network"
  /\ AppError(Fetches[2].resp)
  /\ HasEnvelope(Fetches[3].resp) = FALSE /\ Fetches[3].resp.kind = "http"
  /\ Non2xx(Fetches[4].resp)
  /\ thrown.message = <<"HTTP error! status: ", "4", "0", "4">>

\* ---------------------------------------------------------------- C5

\* a string that is empty or not there
EmptyOrAbsent(v) == v.t \in {"undefined", "null"} \/ (v.t = "string" /\ v.s = <<>>)

\* a duration that is zero, negative or not there
ZeroNegativeOrAbsent(v) == v.t \in {"undefined", "null"} \/ (v.t = "number" /\ v.n <= 0)

LipSyncUrl == <<baseUrl, "/creative_platform/video/lip_sync">>

\* no fetch and no wait has happened, and the call has failed
RejectedLocally == pc = "thrown" /\ log = <<>> /\ thrown.attempt = 0

\* the call went on into request() with the given URL
Delegated(url) ==
  /\ ~RejectedLocally
  /\ pc = "fetch" \/ log # <<>>
  /\ \A i \in 1..NumFetches : Fetches[i].url = url

\* C5: createLipSync fails with an empty log whenever the path or the text is
\* empty or absent or the duration is zero, negative or absent, and otherwise
\* goes on into request() with the lip-sync endpoint.
C5_LipSyncValidation ==
  op = "createLipSync" =>
    IF \/ EmptyOrAbsent(arg.customer_video_path)
       \/ EmptyOrAbsent(arg.lip_sync_tts_content)
       \/ ZeroNegativeOrAbsent(arg.customer_video_duration)
      THEN RejectedLocally
      ELSE Delegated(LipSyncUrl)

\* ---------------------------------------------------------------- C6

\* a duration that is no number greater than zero
NotStrictlyPositive(v) == ~(v.t = "number" /\ v.n > 0)

\* C6: getLastVideoFrame fails with an empty log whenever the path is empty or
\* the duration is not strictly positive, getVideoDetails whenever the video
\* id is absent or zero-equivalent; a call that failed locally has neither
\* fetched nor waited.
C6_LocalValidationNoNetwork ==
  /\ op = "getLastVideoFrame" =>
       ((EmptyOrAbsent(arg.video_path) \/ NotStrictlyPositive(arg.duration))
          => RejectedLocally)
  /\ op = "getVideoDetails" =>
       (Falsy(arg.video_id) => RejectedLocally)
  /\ (pc = "thrown" /\ thrown.attempt = 0) => log = <<>>

\* ---------------------------------------------------------------- C7

\* the header set of request() before anything of the caller is merged in
FixedHeaders == DefaultHeaders([token |-> config.token, headers |-> <<>>])

\* the header overrides of the call at hand
PerCallHeaders == IF "headers" \in DOMAIN options THEN options.headers ELSE <<>>

\* C7: every fetch of a control-plane call sends the fixed headers merged
\* with the headers of the client's construction and with the headers of the
\* call's options, the caller's value winning; no header of the caller is
\* missing.
C7_OverridesSent ==
  \A i \in 1..NumFetches :
    op \in ControlPlaneOps =>
      LET sent == Fetches[i].init.headers IN
        /\ DOMAIN sent = DOMAIN FixedHeaders \cup DOMAIN config.headers \cup DOMAIN PerCallHeaders
        /\ \A k \in DOMAIN PerCallHeaders : sent[k] = PerCallHeaders[k]
        /\ \A k \in DOMAIN config.headers \ DOMAIN PerCallHeaders : sent[k] = config.headers[k]
        /\ \A k \in DOMAIN sent \ (DOMAIN config.headers \cup DOMAIN PerCallHeaders) :
             sent[k] = FixedHeaders[k]

\* ---------------------------------------------------------------- C8

\* C8: an uploadToOSS invocation has an empty log while its PUT is on its way
\* and a log of exactly one entry once it is over: a PUT to the storage host,
\* with no wait; a PUT that fails by status or by the transport ends the
\* invocation as thrown; and the invocation that follows a failed one has an
\* object name and a signature that differ from those of the failed one, and
\* a date read from the clock in this invocation.
C8_OnePutNoRetryFresh ==
  op = "uploadToOSS" =>
    /\ pc \in {"put", "returned", "thrown"}
    /\ Len(log) = (IF pc = "put" THEN 0 ELSE 1)
    /\ NumWaits = 0
    /\ \A i \in 1..Len(log) :
         /\ IsFetch(log[i])
         /\ log[i].init.method = "PUT"
         /\ log[i].url = <<ossHost, "upload/">> \o upload.name
         /\ (log[i].resp.kind = "network" \/ Non2xx(log[i].resp)) = (pc = "thrown")
    /\ lastUpload.active =>
         /\ upload.name # lastUpload.name
         /\ upload.signature # lastUpload.signature
         /\ upload.date = ToUTCString(clock)

C8_Witness ==
  /\ op = "uploadToOSS"
  /\ lastUpload.active
  /\ pc = "thrown"
  /\ Len(log) = 1
  /\ log[1].resp.kind = "http"
  /\ log[1].resp.status = 403
  /\ upload.date = lastUpload.date
  /\ upload.name = <<"uuid-", "1", ".", "MOV">>
  /\ lastUpload.name = <<"uuid-", "0", ".", "MOV">>

\* ---------------------------------------------------------------- C9

HasDot(s) == \E i \in 1..Len(s) : s[i] = "."

\* the text after the last '.' of s
AfterLastDot(s) ==
  LET i == CHOOSE j \in 1..Len(s) : s[j] = "." /\ \A k \in (j + 1)..Len(s) : s[k] # "."
  IN SubSeq(s, i + 1, Len(s))

SentDate == upload.headers["x-oss-date"]

SecurityTokenLine == <<"x-oss-security-token", ":", arg.uploadToken.Token, "\n">>
ForbidOverwriteLine == <<"x-oss-forbid-overwrite", ":", "true", "\n">>
UserAgentLine == <<"x-oss-user-agent", ":">> \o ossUserAgent \o <<"\n">>
DateLine == <<"x-oss-date", ":">> \o SentDate \o <<"\n">>

\* method, empty line, content type, date, then block and resource path
SignedWith(block) ==
  <<"PUT", "\n", "\n">> \o arg.file.type \o <<"\n">> \o SentDate \o <<"\n">>
    \o block \o <<"/pixverse-fe-upload/">> \o upload.path

DateSentAsSigned ==
  \A i \in 1..Len(log) : log[i].init.headers["x-oss-date"] = SentDate

\* C10 as stated: the header block of the signed string holds the lines of
\* the security token, forbid-overwrite and user-agent headers and of no other
\* header.
C10_ThreeHeaderBlock ==
  (op = "uploadToOSS" /\ upload.active) =>
    /\ upload.stringToSign =
         SignedWith(ForbidOverwriteLine \o SecurityTokenLine \o UserAgentLine)
    /\ DateSentAsSigned

\* C10, amended: the string signed by uploadToOSS is the method, an empty
\* line, the content type, the date, then the header block followed at once by
\* the resource path; the header block holds the lines of x-oss-date,
\* x-oss-forbid-overwrite, x-oss-security-token and x-oss-user-agent, in that
\* (sorted) order, each ended by a newline; the date is the one sent as the
\* x-oss-date header of the PUT; and what is signed with the secret key is
\* this string.
C10_FourHeaderBlock ==
  (op = "uploadToOSS" /\ upload.active) =>
    /\ upload.stringToSign =
         SignedWith(DateLine \o ForbidOverwriteLine \o SecurityTokenLine \o UserAgentLine)
    /\ DateSentAsSigned
    /\ upload.signature = HmacSha1Base64(arg.uploadToken.Sk, upload.stringToSign)

C10_Witness ==
  /\ op = "uploadToOSS"
  /\ pc = "returned"
  /\ log[1].init.headers["x-oss-date"] = <<"Thu, 01 Jan 1970 00:00:", "0", "1", " GMT">>
  /\ upload.stringToSign =
       <<"PUT", "\n", "\n", "video/mp4", "\n",
         "Thu, 01 Jan 1970 00:00:", "0", "1", " GMT", "\n",
         "x-oss-date", ":", "Thu, 01 Jan 1970 00:00:", "0", "1", " GMT", "\n",
         "x-oss-forbid-overwrite", ":", "true", "\n",
         "x-oss-security-token", ":", "sts-token", "\n",
         "x-oss-user-agent", ":", "aliyun-sdk-js/6.22.0 Firefox 136.0 on OS X 10.15", "\n",
         "/pixverse-fe-upload/", "upload/", "uuid-", "0", ".", "mp4">>

\* --------------------------------------------------------------- C11

Count(events, kind) == Len(SelectSeq(events, LAMBDA e : e = kind))

\* the attempts of one call come one after the other: a fetch is the first
\* event or follows a timer that follows a failed fetch, and a fetch is
\* followed by nothing but its own outcome
SequentialAttempts(events) ==
  \A i \in 1..Len(events) :
    /\ events[i] = "fetch" =>
         i = 1 \/ (i >= 3 /\ events[i - 1] = "timer" /\ events[i - 2] = "failed")
    /\ events[i] = "timer" => i > 1 /\ events[i - 1] = "failed"
    /\ events[i] \in {"failed", "ok"} => i > 1 /\ events[i - 1] = "fetch"

\* call c has the budget its own history leaves it, and no more than 4 attempts
OwnBudget(c) ==
  LET e == calls[c].events IN
    /\ Count(e, "fetch") <= 4
    /\ calls[c].pc # "idle" => calls[c].retries = 3 - Count(e, "timer")
    /\ calls[c].pc # "idle" => calls[c].retries \in 0..3
    /\ calls[c].pc = "thrown" => Count(e, "fetch") = 4 /\ Count(e, "failed") = 4
    /\ Count(e, "fetch") - Count(e, "failed") - Count(e, "ok")
         = (IF calls[c].pc = "inflight" THEN 1 ELSE 0)
    /\ SequentialAttempts(e)

\* a step is taken by one call and leaves the other calls and the
\* configuration as they are
OneCallSteps ==
  /\ config' = config
  /\ \A c \in CallIds :
       calls'[c] # calls[c] => \A d \in CallIds \ {c} : calls'[d] = calls[d]

\* C11: with several calls in flight, in every interleaving each call makes
\* at most 4 attempts and holds the retries its own failures have left it, its
\* attempts follow one another (fetch, failure, timer, fetch, ...), and a
\* step of one call changes neither another call's retries nor the client's
\* configuration.
C11_IndependentCalls ==
  /\ [](\A c \in CallIds : OwnBudget(c))
  /\ [][OneCallSteps]_vars

C11_Witness ==
  /\ calls[1].pc = "thrown"
  /\ Count(calls[1].events, "fetch") = 4
  /\ calls[2].pc = "inflight"
  /\ calls[2].retries = 3
  /\ calls[2].events = <<"fetch">>

====
